---- MODULE Spec2Model ----
(***************************************************************************)
(* A model of the JSON tokenizer and recursive-descent parser of           *)
(* src/main.rs.  Bytes and characters are their code points; a token (a    *)
(* Rust String) is the sequence of its characters.  A panic (a failed      *)
(* assert!, unreachable!(), an index out of bounds, an unwrap of None) is  *)
(* the terminal state "tokenize_panic" or "parse_panic".                   *)
(***************************************************************************)
EXTENDS Integers, Sequences, FiniteSets, TLC

VARIABLES bytes, pos, tokens, curr_token, in_string, escape,
          cursor, stack, ret, pc, original

vars == <<bytes, pos, tokens, curr_token, in_string, escape,
          cursor, stack, ret, pc, original>>


(* ---------------- characters ---------------- *)
BS == 8
TAB == 9
NL == 10
FF == 12
CR == 13
SP == 32
QUOTE == 34
PLUS == 43
COMMA == 44
MINUS == 45
DOT == 46
SLASH == 47
D0 == 48
D1 == 49
D2 == 50
D3 == 51
D5 == 53
D9 == 57
COLON == 58
Ch_E == 69
LBRACK == 91
BACKSLASH == 92
RBRACK == 93
Ch_a == 97
Ch_b == 98
Ch_e == 101
Ch_f == 102
Ch_l == 108
Ch_n == 110
Ch_r == 114
Ch_s == 115
Ch_t == 116
Ch_u == 117
Ch_x == 120
LBRACE == 123
RBRACE == 125

IsDigit(c) == c >= D0 /\ c <= D9

(* ---------------- tokenize: one match arm per operator ---------------- *)
\* The loop-carried locals of tokenize; ok = FALSE when the arm panics.
TokState(tk, ct, ins, esc) ==
    [tokens |-> tk, curr_token |-> ct, in_string |-> ins, escape |-> esc, ok |-> TRUE]

TokPanic(st) == [st EXCEPT !.ok = FALSE]

\* if !curr_token.is_empty() { tokens.push(curr_token.iter().collect()); curr_token.clear(); }
FlushAlways(st) ==
    [st EXCEPT !.tokens = Append(@, st.curr_token), !.curr_token = <<>>]
Flush(st) ==
    IF st.curr_token # <<>>
    THEN [st EXCEPT !.tokens = Append(@, st.curr_token), !.curr_token = <<>>]
    ELSE st

PushChar(st, c) == [st EXCEPT !.curr_token = Append(@, c)]

EmitChar(st, c) == [st EXCEPT !.tokens = Append(@, <<c>>)]

ClearEscape(st) == [st EXCEPT !.escape = FALSE]

\* '\n' | '\r' | '\t'
ArmWhitespace(st, c) ==
    IF st.in_string THEN TokPanic(st)
    ELSE ClearEscape(Flush(st))

\* '{' | '}' | '[' | ']' | ':' | ',' | '+' | '-' | '.'
ArmSpecial_NoFlush(st, c) ==
    IF st.in_string THEN ClearEscape(PushChar(st, c))
    ELSE ClearEscape(EmitChar(st, c))
ArmSpecial(st, c) ==
    IF st.in_string THEN ClearEscape(PushChar(st, c))
    ELSE ClearEscape(EmitChar(Flush(st), c))

\* '\\'
ArmBackslash_NoAssert(st, c) ==
    IF st.escape THEN ClearEscape(PushChar(st, c))
    ELSE [st EXCEPT !.escape = TRUE]
ArmBackslash(st, c) ==
    IF ~st.in_string THEN TokPanic(st)
    ELSE IF st.escape THEN ClearEscape(PushChar(st, c))
    ELSE [st EXCEPT !.escape = TRUE]

\* '/'
ArmSlash(st, c) == ClearEscape(PushChar(st, c))

\* the inner match of the 'b' | 'f' | 'n' | 'r' | 't' arm
ControlChar(c) ==
    CASE c = Ch_b -> BS
      [] c = Ch_f -> FF
      [] c = Ch_n -> NL
      [] c = Ch_r -> CR
      [] c = Ch_t -> TAB

\* 'b' | 'f' | 'n' | 'r' | 't'
ArmEscapable_Literal(st, c) ==
    IF st.escape
    THEN IF ~st.in_string THEN TokPanic(st)
         ELSE ClearEscape(PushChar(st, c))
    ELSE PushChar(st, c)
ArmEscapable(st, c) ==
    IF st.escape
    THEN IF ~st.in_string THEN TokPanic(st)
         ELSE ClearEscape(PushChar(st, ControlChar(c)))
    ELSE PushChar(st, c)

\* 'u'
ArmUnicode(st, c) == ClearEscape(PushChar(st, c))

\* '\"'
ArmQuote(st, c) ==
    IF st.escape
    THEN IF ~st.in_string THEN TokPanic(st)
         ELSE ClearEscape(PushChar(st, c))
    ELSE EmitChar(Flush([st EXCEPT !.in_string = ~st.in_string]), c)

\* ' '
ArmSpace_FlushAlways(st, c) ==
    IF st.in_string THEN ClearEscape(PushChar(st, c))
    ELSE ClearEscape(FlushAlways(st))
ArmSpace(st, c) ==
    IF st.in_string THEN ClearEscape(PushChar(st, c))
    ELSE ClearEscape(Flush(st))

\* 'E' | 'e'  (the in-string branch continues the loop without touching escape)
ArmExponent(st, c) ==
    IF st.in_string THEN PushChar(st, c)
    ELSE IF st.curr_token = <<>> THEN TokPanic(st)
    ELSE IF IsDigit(st.curr_token[Len(st.curr_token)])
         THEN ClearEscape(EmitChar(FlushAlways(st), c))
         ELSE ClearEscape(PushChar(st, c))

\* _
ArmOther(st, c) == ClearEscape(PushChar(st, c))

\* match c { ... }
TokenizeByte(st, c) ==
    CASE c \in {NL, CR, TAB} -> ArmWhitespace(st, c)
      [] c \in {LBRACE, RBRACE, LBRACK, RBRACK, COLON, COMMA, PLUS, MINUS, DOT}
                             -> ArmSpecial(st, c)
      [] c = BACKSLASH       -> ArmBackslash(st, c)
      [] c = SLASH           -> ArmSlash(st, c)
      [] c \in {Ch_b, Ch_f, Ch_n, Ch_r, Ch_t} -> ArmEscapable(st, c)
      [] c = Ch_u            -> ArmUnicode(st, c)
      [] c = QUOTE           -> ArmQuote(st, c)
      [] c = SP              -> ArmSpace(st, c)
      [] c \in {Ch_E, Ch_e}  -> ArmExponent(st, c)
      [] OTHER               -> ArmOther(st, c)

(* ---------------- JSONValue ---------------- *)
\* f64 values are written as exact fractions num/den
Num(n, d) == [type |-> "Num", num |-> n, den |-> d]
Obj(hm) == [type |-> "Obj", map |-> hm]
Arr(a) == [type |-> "Arr", elems |-> a]
Str(s) == [type |-> "Str", s |-> s]
Bool(b) == [type |-> "Bool", b |-> b]
Null == [type |-> "Null"]
\* a std String, as parse_string returns it
RustString(s) == [type |-> "String", s |-> s]
\* no value returned yet
NoValue == [type |-> "NoValue"]

\* HashMap::new() and HashMap::insert
EmptyMap == [k \in {} |-> Null]
MapInsert(hm, key, value) ==
    [k \in DOMAIN hm \cup {key} |-> IF k = key THEN value ELSE hm[k]]

(* ---------------- tokens the parser matches on ---------------- *)
T_lbrace == <<LBRACE>>
T_rbrace == <<RBRACE>>
T_lbrack == <<LBRACK>>
T_rbrack == <<RBRACK>>
T_colon == <<COLON>>
T_comma == <<COMMA>>
T_quote == <<QUOTE>>
T_true == <<Ch_t, Ch_r, Ch_u, Ch_e>>
T_false == <<Ch_f, Ch_a, Ch_l, Ch_s, Ch_e>>
T_null == <<Ch_n, Ch_u, Ch_l, Ch_l>>

\* let forbidden_tokens = vec![",", "\"", "]", "}"];
forbidden_tokens == {T_comma, T_quote, T_rbrack, T_rbrace}

\* tokens[i] with a 0-based index; InBounds is the bounds check of the index
InBounds(i) == i < Len(tokens)
Tok(i) == tokens[i + 1]

(* ---------------- call stack ---------------- *)
\* one activation of parse_value, parse_object, parse_array or parse_string,
\* entered with the cursor at cur
Frame(fn, cur) ==
    [fn |-> fn, pc |-> "entry", start |-> cur,
     hm |-> EmptyMap, key |-> <<>>, array |-> <<>>, c |-> 0]

Top == stack[Len(stack)]
Running(fn, at) == pc = "parse" /\ stack # <<>> /\ Top.fn = fn /\ Top.pc = at

SetTop(f) == [stack EXCEPT ![Len(stack)] = f]
Pop == SubSeq(stack, 1, Len(stack) - 1)

\* a panic inside the parser
ParsePanic ==
    /\ pc' = "parse_panic"
    /\ UNCHANGED <<cursor, stack, ret>>

\* return v from the running function, leaving the cursor at cur
Return(v, cur) ==
    /\ cursor' = cur
    /\ ret' = v
    /\ stack' = Pop
    /\ pc' = IF Len(stack) = 1 THEN "done" ELSE "parse"

\* call fn from the running function, which resumes at label at
Call(fn, at, cur) ==
    /\ cursor' = cur
    /\ stack' = Append(SetTop([Top EXCEPT !.pc = at]), Frame(fn, cur))
    /\ UNCHANGED <<ret, pc>>

(* ---------------- tokenize ---------------- *)
\* one iteration of `for b in bytes.iter()`
TokenizeStep ==
    /\ pc = "tokenize"
    /\ pos < Len(bytes)
    /\ LET st == TokenizeByte(TokState(tokens, curr_token, in_string, escape),
                              bytes[pos + 1])
       IN IF st.ok
          THEN /\ tokens' = st.tokens
               /\ curr_token' = st.curr_token
               /\ in_string' = st.in_string
               /\ escape' = st.escape
               /\ pos' = pos + 1
               /\ pc' = pc
          ELSE /\ pc' = "tokenize_panic"
               /\ UNCHANGED <<tokens, curr_token, in_string, escape, pos>>
    /\ UNCHANGED <<original, bytes, cursor, stack, ret>>

\* assert!(curr_token.is_empty()); return tokens;  and then, in parse_json,
\* the cursor is created at 0 and parse_value is called
EndOfInputOk == curr_token = <<>>

TokenizeReturn ==
    /\ pc = "tokenize"
    /\ pos = Len(bytes)
    /\ IF EndOfInputOk
       THEN /\ pc' = "parse"
            /\ cursor' = 0
            /\ stack' = <<Frame("parse_value", 0)>>
       ELSE /\ pc' = "tokenize_panic"
            /\ UNCHANGED <<cursor, stack>>
    /\ UNCHANGED <<original, bytes, pos, tokens, curr_token, in_string, escape, ret>>

(* ---------------- parse_string ---------------- *)
\* the whole function on token sequence tks with the cursor at cur
ParseStringResult_Backtrack(tks, cur) ==
    IF cur >= Len(tks) \/ cur + 1 >= Len(tks)
    THEN [ok |-> FALSE, s |-> <<>>, cursor |-> cur]
    ELSE IF tks[cur + 2] = T_quote
         THEN [ok |-> TRUE, s |-> tks[cur + 1], cursor |-> cur + 2]
         ELSE [ok |-> TRUE, s |-> <<>>, cursor |-> cur - 1]
ParseStringResult_QuoteIsEmpty(tks, cur) ==
    IF cur >= Len(tks) \/ cur + 1 >= Len(tks)
    THEN [ok |-> FALSE, s |-> <<>>, cursor |-> cur]
    ELSE IF tks[cur + 2] = T_quote /\ tks[cur + 1] # T_quote
         THEN [ok |-> TRUE, s |-> tks[cur + 1], cursor |-> cur + 2]
         ELSE [ok |-> TRUE, s |-> <<>>, cursor |-> cur + 1]
ParseStringResult(tks, cur) ==
    IF cur >= Len(tks) \/ cur + 1 >= Len(tks)
    THEN [ok |-> FALSE, s |-> <<>>, cursor |-> cur]
    ELSE IF tks[cur + 2] = T_quote
         THEN [ok |-> TRUE, s |-> tks[cur + 1], cursor |-> cur + 2]
         ELSE [ok |-> TRUE, s |-> <<>>, cursor |-> cur + 1]

ParseString ==
    /\ Running("parse_string", "entry")
    /\ LET r == ParseStringResult(tokens, cursor)
       IN IF r.ok THEN Return(RustString(r.s), r.cursor) ELSE ParsePanic
    /\ UNCHANGED <<original, bytes, pos, tokens, curr_token, in_string, escape>>

(* ---------------- parse_value ---------------- *)
\* the value of a literal token, for the three literal arms
IsLiteral(t) == t \in {T_true, T_false, T_null}
LiteralValue(t) ==
    CASE t = T_true -> Bool(TRUE)
      [] t = T_false -> Bool(FALSE)
      [] t = T_null -> Null

\* match tokens[cursor.get()].as_str() { ... }
ParseValue ==
    /\ Running("parse_value", "entry")
    /\ IF ~InBounds(cursor) THEN ParsePanic
       ELSE LET t == Tok(cursor)
            IN CASE t = T_lbrace -> Call("parse_object", "returning", cursor + 1)
                 [] t = T_lbrack -> Call("parse_array", "returning", cursor + 1)
                 [] t = T_quote -> Call("parse_string", "wrap_str", cursor + 1)
                 [] IsLiteral(t) -> Return(LiteralValue(t), cursor + 1)
                 [] OTHER ->
                      /\ stack' = SetTop([Top EXCEPT !.pc = "skip", !.c = cursor])
                      /\ UNCHANGED <<cursor, ret, pc>>
    /\ UNCHANGED <<original, bytes, pos, tokens, curr_token, in_string, escape>>

\* return parse_object(&tokens, cursor);  return parse_array(&tokens, cursor);
ParseValueReturn ==
    /\ Running("parse_value", "returning")
    /\ Return(ret, cursor)
    /\ UNCHANGED <<original, bytes, pos, tokens, curr_token, in_string, escape>>

\* return JSONValue::Str(parse_string(&tokens, cursor));
ParseValueStr ==
    /\ Running("parse_value", "wrap_str")
    /\ Return(Str(ret.s), cursor)
    /\ UNCHANGED <<original, bytes, pos, tokens, curr_token, in_string, escape>>

\* the value the number arm returns
NumberArmValue == Num(1, 1)

\* (variant: the skip loop without its c += 1)
ParseValueSkip_NoAdvance ==
    /\ Running("parse_value", "skip")
    /\ IF ~InBounds(Top.c) THEN ParsePanic
       ELSE IF Tok(Top.c) \in forbidden_tokens
            THEN Return(NumberArmValue, Top.c)
            ELSE /\ stack' = SetTop([Top EXCEPT !.c = Top.c])
                 /\ UNCHANGED <<cursor, ret, pc>>
    /\ UNCHANGED <<original, bytes, pos, tokens, curr_token, in_string, escape>>

\* while !forbidden_tokens.contains(&tokens[c].as_str()) { c += 1; }
\* cursor.set(c); return JSONValue::Num(1.0);
ParseValueSkip ==
    /\ Running("parse_value", "skip")
    /\ IF ~InBounds(Top.c) THEN ParsePanic
       ELSE IF Tok(Top.c) \in forbidden_tokens
            THEN Return(NumberArmValue, Top.c)
            ELSE /\ stack' = SetTop([Top EXCEPT !.c = Top.c + 1])
                 /\ UNCHANGED <<cursor, ret, pc>>
    /\ UNCHANGED <<original, bytes, pos, tokens, curr_token, in_string, escape>>

(* ---------------- parse_object ---------------- *)
\* first match of the loop body
ParseObjectHead ==
    /\ Running("parse_object", "entry")
    /\ IF ~InBounds(cursor) THEN ParsePanic
       ELSE LET t == Tok(cursor)
            IN CASE t = T_rbrace -> Return(Obj(Top.hm), cursor + 1)
                 [] t = T_quote -> Call("parse_string", "key", cursor + 1)
                 [] OTHER -> ParsePanic
    /\ UNCHANGED <<original, bytes, pos, tokens, curr_token, in_string, escape>>

\* assert_eq!(tokens[cursor.get()], ":"); cursor += 1; parse_value(...)
ParseObjectColon ==
    /\ Running("parse_object", "key")
    /\ IF ~InBounds(cursor) THEN ParsePanic
       ELSE IF Tok(cursor) # T_colon THEN ParsePanic
       ELSE /\ cursor' = cursor + 1
            /\ stack' = Append(SetTop([Top EXCEPT !.pc = "value", !.key = ret.s]),
                               Frame("parse_value", cursor + 1))
            /\ UNCHANGED <<ret, pc>>
    /\ UNCHANGED <<original, bytes, pos, tokens, curr_token, in_string, escape>>

\* hm.insert(key, value); then the second match of the loop body
ParseObjectInsert ==
    /\ Running("parse_object", "value")
    /\ LET hm == MapInsert(Top.hm, Top.key, ret)
       IN IF ~InBounds(cursor) THEN ParsePanic
          ELSE LET t == Tok(cursor)
               IN CASE t = T_comma ->
                         /\ cursor' = cursor + 1
                         /\ stack' = SetTop([Top EXCEPT !.pc = "entry", !.hm = hm])
                         /\ UNCHANGED <<ret, pc>>
                    [] t = T_rbrace -> Return(Obj(hm), cursor + 1)
                    [] OTHER -> ParsePanic
    /\ UNCHANGED <<original, bytes, pos, tokens, curr_token, in_string, escape>>

(* ---------------- parse_array ---------------- *)
\* first match of the loop body
ParseArrayHead_NoEmpty ==
    /\ Running("parse_array", "entry")
    /\ IF ~InBounds(cursor) THEN ParsePanic
       ELSE Call("parse_value", "elem", cursor)
    /\ UNCHANGED <<original, bytes, pos, tokens, curr_token, in_string, escape>>
ParseArrayHead ==
    /\ Running("parse_array", "entry")
    /\ IF ~InBounds(cursor) THEN ParsePanic
       ELSE IF Tok(cursor) = T_rbrack
            THEN Return(Arr(Top.array), cursor + 1)
            ELSE Call("parse_value", "elem", cursor)
    /\ UNCHANGED <<original, bytes, pos, tokens, curr_token, in_string, escape>>

\* (variant: the new value is put in front of the array)
ParseArrayPush_Prepend ==
    /\ Running("parse_array", "elem")
    /\ LET array == <<ret>> \o Top.array
       IN IF ~InBounds(cursor) THEN ParsePanic
          ELSE LET t == Tok(cursor)
               IN CASE t = T_comma ->
                         /\ cursor' = cursor + 1
                         /\ stack' = SetTop([Top EXCEPT !.pc = "entry", !.array = array])
                         /\ UNCHANGED <<ret, pc>>
                    [] t = T_rbrack -> Return(Arr(array), cursor + 1)
                    [] OTHER -> ParsePanic
    /\ UNCHANGED <<original, bytes, pos, tokens, curr_token, in_string, escape>>

\* array.push(value); then the second match of the loop body
ParseArrayPush ==
    /\ Running("parse_array", "elem")
    /\ LET array == Append(Top.array, ret)
       IN IF ~InBounds(cursor) THEN ParsePanic
          ELSE LET t == Tok(cursor)
               IN CASE t = T_comma ->
                         /\ cursor' = cursor + 1
                         /\ stack' = SetTop([Top EXCEPT !.pc = "entry", !.array = array])
                         /\ UNCHANGED <<ret, pc>>
                    [] t = T_rbrack -> Return(Arr(array), cursor + 1)
                    [] OTHER -> ParsePanic
    /\ UNCHANGED <<original, bytes, pos, tokens, curr_token, in_string, escape>>

(* ---------------- inputs ---------------- *)
MaxLen == 3
MaxLexemes == 4

RECURSIVE Flatten(_)
Flatten(ss) == IF ss = <<>> THEN <<>> ELSE Head(ss) \o Flatten(Tail(ss))

SeqsUpTo(S, n) == UNION {[1..k -> S] : k \in 0..n}

\* every byte string of at most MaxLen bytes over bytes that reach every arm
ByteAlphabet ==
    {NL, SP, QUOTE, COMMA, SLASH, D1, COLON, BACKSLASH, Ch_e, Ch_n, Ch_u,
     LBRACE, RBRACE, Ch_a}
ShortInputs == SeqsUpTo(ByteAlphabet, MaxLen)

\* every concatenation of at most MaxLexemes lexemes
KeyA == <<QUOTE, Ch_a, QUOTE>>
KeyB == <<QUOTE, Ch_b, QUOTE>>
Lexemes ==
    {T_lbrace, T_rbrace, T_lbrack, T_rbrack, T_colon, T_comma, KeyA, <<D1>>, T_true}
LexemeDocs == {Flatten(ls) : ls \in SeqsUpTo(Lexemes, MaxLexemes)}

\* {"a":1}
DocObjA1 == T_lbrace \o KeyA \o T_colon \o <<D1>> \o T_rbrace
\* {"x":[1,2.5,-3e2,true,false,null,"s"]}
DocMixed ==
    T_lbrace \o <<QUOTE, Ch_x, QUOTE>> \o T_colon \o T_lbrack
    \o <<D1>> \o T_comma \o <<D2, DOT, D5>> \o T_comma
    \o <<MINUS, D3, Ch_e, D2>> \o T_comma
    \o T_true \o T_comma \o T_false \o T_comma \o T_null \o T_comma
    \o <<QUOTE, Ch_s, QUOTE>> \o T_rbrack \o T_rbrace
\* {"a":}
DocMissingValue == T_lbrace \o KeyA \o T_colon \o T_rbrace
\* 1e10
DocExponent == <<D1, Ch_e, D1, D0>>
\* [1e10]
DocExponentInArray == T_lbrack \o DocExponent \o T_rbrack
\* "a\nb"  (six bytes: quote, a, backslash, n, b, quote)
DocEscapedNewline == <<QUOTE, Ch_a, BACKSLASH, Ch_n, Ch_b, QUOTE>>

\* the text of a value and the value the document structure gives it
EmptyObjText == T_lbrace \o T_rbrace
EmptyArrText == T_lbrack \o T_rbrack
ValueTexts ==
    {<<D1>>, <<D2>>, T_true, T_false, T_null, <<QUOTE, Ch_s, QUOTE>>,
     EmptyObjText, EmptyArrText}
ValueOfText(v) ==
    CASE v = <<D1>> -> Num(1, 1)
      [] v = <<D2>> -> Num(2, 1)
      [] v = T_true -> Bool(TRUE)
      [] v = T_false -> Bool(FALSE)
      [] v = T_null -> Null
      [] v = <<QUOTE, Ch_s, QUOTE>> -> Str(<<Ch_s>>)
      [] v = EmptyObjText -> Obj(EmptyMap)
      [] v = EmptyArrText -> Arr(<<>>)

\* {"k1":v1,"k2":v2}
TwoEntryDoc(k1, v1, k2, v2) ==
    T_lbrace \o k1 \o T_colon \o v1 \o T_comma \o k2 \o T_colon \o v2 \o T_rbrace
TwoEntryDocs ==
    {TwoEntryDoc(k1, v1, k2, v2) :
        k1 \in {KeyA, KeyB}, k2 \in {KeyA, KeyB}, v1 \in ValueTexts, v2 \in ValueTexts}

\* {"a":v x}  an entry whose value is followed by the token x
Followers == {<<D2>>, T_true, T_colon, T_rbrack, T_lbrack, T_lbrace}
FollowedEntryDoc(v, x) ==
    T_lbrace \o KeyA \o T_colon \o v \o <<SP>> \o x \o T_rbrace
FollowedEntryDocs == {FollowedEntryDoc(v, x) : v \in ValueTexts, x \in Followers}

\* [e]  [e,e]  [[e]]  {"a":e}  [{"a":e}]  for an empty object or array e
NestedEmptyDocs ==
    UNION {{T_lbrack \o e \o T_rbrack,
            T_lbrack \o e \o T_comma \o e \o T_rbrack,
            T_lbrack \o T_lbrack \o e \o T_rbrack \o T_rbrack,
            T_lbrace \o KeyA \o T_colon \o e \o T_rbrace,
            T_lbrack \o T_lbrace \o KeyA \o T_colon \o e \o T_rbrace \o T_rbrack}
           : e \in {EmptyObjText, EmptyArrText}}

\* "\c"  and  "\cx": an escape of each escapable letter inside a string
EscapeDocs ==
    {<<QUOTE, BACKSLASH, c, QUOTE>> : c \in {Ch_b, Ch_f, Ch_n, Ch_r, Ch_t}}
    \cup {<<QUOTE, Ch_a, BACKSLASH, c, c, QUOTE>> : c \in {Ch_b, Ch_f, Ch_n, Ch_r, Ch_t}}

\* ""  [""]  ["",""]  ["",true]  {"":true}  {"a":""}  {"a":"","b":true}
EmptyStrText == <<QUOTE, QUOTE>>
EmptyStringDocs ==
    {EmptyStrText,
     T_lbrack \o EmptyStrText \o T_rbrack,
     T_lbrack \o EmptyStrText \o T_comma \o EmptyStrText \o T_rbrack,
     T_lbrack \o EmptyStrText \o T_comma \o T_true \o T_rbrack,
     T_lbrace \o EmptyStrText \o T_colon \o T_true \o T_rbrace,
     T_lbrace \o KeyA \o T_colon \o EmptyStrText \o T_rbrace,
     T_lbrace \o KeyA \o T_colon \o EmptyStrText \o T_comma
        \o KeyB \o T_colon \o T_true \o T_rbrace}

\* ["\""]  ["a\nb"]  ["\\"]  strings whose text holds a quote, a control
\* character or a backslash
EscapedTextDocs ==
    {T_lbrack \o <<QUOTE, BACKSLASH, QUOTE, QUOTE>> \o T_rbrack,
     T_lbrack \o DocEscapedNewline \o T_rbrack,
     T_lbrack \o <<QUOTE, BACKSLASH, BACKSLASH, QUOTE>> \o T_rbrack}

\* [1w1w]  "\w"  "aw  for each whitespace byte w
WhitespaceDocs ==
    UNION {{<<LBRACK, D1, w, D1, w, RBRACK>>,
            <<QUOTE, BACKSLASH, w, QUOTE>>,
            <<QUOTE, Ch_a, w>>} : w \in {SP, TAB, CR, NL}}

\* [v1,...,vn]  for n <= MaxElems values, nested arrays and objects included
MaxElems == 2
NestedArrText == T_lbrack \o T_true \o T_rbrack
NestedObjText == T_lbrace \o KeyA \o T_colon \o T_null \o T_rbrace
ElemTexts ==
    {<<D1>>, T_true, T_false, T_null, <<QUOTE, Ch_s, QUOTE>>, EmptyArrText,
     NestedArrText, NestedObjText}
RECURSIVE JoinComma(_)
JoinComma(vs) ==
    IF vs = <<>> THEN <<>>
    ELSE IF Len(vs) = 1 THEN Head(vs)
    ELSE Head(vs) \o T_comma \o JoinComma(Tail(vs))
ArrayDoc(vs) == T_lbrack \o JoinComma(vs) \o T_rbrack
ArrayDocs == {ArrayDoc(vs) : vs \in SeqsUpTo(ElemTexts, MaxElems)}

ExampleDocs ==
    {DocObjA1, DocMixed, DocMissingValue, DocExponent, DocExponentInArray,
     DocEscapedNewline}

Inputs ==
    ShortInputs \cup LexemeDocs \cup ExampleDocs \cup TwoEntryDocs
    \cup FollowedEntryDocs \cup NestedEmptyDocs \cup EscapeDocs
    \cup EmptyStringDocs \cup EscapedTextDocs \cup WhitespaceDocs
    \cup ArrayDocs

(* ---------------- specification ---------------- *)
\* parse_json(bytes): the locals of tokenize at its first line
Init ==
    /\ bytes \in Inputs
    /\ pos = 0
    /\ tokens = <<>>
    /\ curr_token = <<>>
    /\ in_string = FALSE
    /\ escape = FALSE
    /\ cursor = 0
    /\ stack = <<>>
    /\ ret = NoValue
    /\ pc = "tokenize"
    /\ original = NoValue

Next ==
    \/ TokenizeStep
    \/ TokenizeReturn
    \/ ParseValue
    \/ ParseValueReturn
    \/ ParseValueStr
    \/ ParseValueSkip
    \/ ParseString
    \/ ParseObjectHead
    \/ ParseObjectColon
    \/ ParseObjectInsert
    \/ ParseArrayHead
    \/ ParseArrayPush

Spec == Init /\ [][Next]_vars

(* ---------------- direct calls of the parser ---------------- *)
\* parse_string(&tokens, &cursor) and parse_value(&tokens, &cursor) called on
\* a token sequence with the cursor anywhere in it, as the unit tests call
\* parse_string
MaxTokens == 3

TokenAlphabet ==
    {T_lbrace, T_rbrace, T_lbrack, T_rbrack, T_colon, T_comma, T_quote, T_true,
     <<D1>>, <<>>}

\* token sequences of whole documents and of broken ones
\* { " a " : [ true , { } ] , " b " : 1 }
TokensNested ==
    <<T_lbrace, T_quote, <<Ch_a>>, T_quote, T_colon, T_lbrack, T_true, T_comma,
      T_lbrace, T_rbrace, T_rbrack, T_comma, T_quote, <<Ch_b>>, T_quote, T_colon,
      <<D1>>, T_rbrace>>
\* [ " a " , 1 1 , [ ] , , ]
TokensArray ==
    <<T_lbrack, T_quote, <<Ch_a>>, T_quote, T_comma, <<D1>>, <<D1>>, T_comma,
      T_lbrack, T_rbrack, T_comma, T_comma, T_rbrack>>
\* { " a " : 1 : 1
TokensRunOff ==
    <<T_lbrace, T_quote, <<Ch_a>>, T_quote, T_colon, <<D1>>, T_colon, <<D1>>>>

TokenInputs ==
    SeqsUpTo(TokenAlphabet, MaxTokens) \cup {TokensNested, TokensArray, TokensRunOff}

InitCalls ==
    /\ bytes = <<>>
    /\ pos = 0
    /\ tokens \in TokenInputs
    /\ curr_token = <<>>
    /\ in_string = FALSE
    /\ escape = FALSE
    /\ cursor \in 0..Len(tokens)
    /\ \E fn \in {"parse_value", "parse_string"} : stack = <<Frame(fn, cursor)>>
    /\ ret = NoValue
    /\ pc = "parse"
    /\ original = NoValue

NextCalls ==
    \/ ParseValue
    \/ ParseValueReturn
    \/ ParseValueStr
    \/ ParseValueSkip
    \/ ParseString
    \/ ParseObjectHead
    \/ ParseObjectColon
    \/ ParseObjectInsert
    \/ ParseArrayHead
    \/ ParseArrayPush

\* the program is sequential: a call that can take a step takes it
CallSpec == InitCalls /\ [][NextCalls]_vars /\ WF_vars(NextCalls)

(* ---------------- serializer and round trip ---------------- *)
\* The serializer, from its description: objects as {, one indented
\* "key: value," line per entry, }; arrays likewise; strings re-quoted with
\* backslashes doubled and nothing else escaped; numbers by default float
\* formatting; true, false, null.  Keys are rendered as strings are.
RECURSIVE SetToSeq(_)
SetToSeq(S) ==
    IF S = {} THEN <<>>
    ELSE LET x == CHOOSE y \in S : TRUE IN <<x>> \o SetToSeq(S \ {x})

RECURSIVE DoubleBackslashes(_)
DoubleBackslashes(s) ==
    IF s = <<>> THEN <<>>
    ELSE (IF Head(s) = BACKSLASH THEN <<BACKSLASH, BACKSLASH>> ELSE <<Head(s)>>)
         \o DoubleBackslashes(Tail(s))

QuoteText(s) == <<QUOTE>> \o DoubleBackslashes(s) \o <<QUOTE>>

RECURSIVE Indent(_)
Indent(d) == IF d = 0 THEN <<>> ELSE <<SP, SP, SP, SP>> \o Indent(d - 1)

\* 1.0 is the only number a tree of the parser holds; it is formatted as 1
FormatNumber(v) == <<D1>>

RECURSIVE Serialize(_, _)
RECURSIVE SerializeEntries(_, _, _)
RECURSIVE SerializeElements(_, _)
SerializeEntries(hm, keys, d) ==
    IF keys = <<>> THEN <<>>
    ELSE Indent(d) \o QuoteText(Head(keys)) \o <<COLON, SP>>
         \o Serialize(hm[Head(keys)], d) \o <<COMMA, NL>>
         \o SerializeEntries(hm, Tail(keys), d)
SerializeElements(elems, d) ==
    IF elems = <<>> THEN <<>>
    ELSE Indent(d) \o Serialize(Head(elems), d) \o <<COMMA, NL>>
         \o SerializeElements(Tail(elems), d)
Serialize(v, d) ==
    CASE v.type = "Obj" ->
           <<LBRACE, NL>> \o SerializeEntries(v.map, SetToSeq(DOMAIN v.map), d + 1)
           \o Indent(d) \o <<RBRACE>>
      [] v.type = "Arr" ->
           <<LBRACK, NL>> \o SerializeElements(v.elems, d + 1) \o Indent(d) \o <<RBRACK>>
      [] v.type = "Str" -> QuoteText(v.s)
      [] v.type = "Num" -> FormatNumber(v)
      [] v.type = "Bool" -> IF v.b THEN T_true ELSE T_false
      [] v.type = "Null" -> T_null

\* parse_json(serialize(v)) for the tree v that parse_json returned
Reserialize ==
    /\ pc = "done"
    /\ original = NoValue
    /\ original' = ret
    /\ bytes' = Serialize(ret, 0)
    /\ pos' = 0
    /\ tokens' = <<>>
    /\ curr_token' = <<>>
    /\ in_string' = FALSE
    /\ escape' = FALSE
    /\ cursor' = 0
    /\ stack' = <<>>
    /\ ret' = NoValue
    /\ pc' = "tokenize"

NextRoundTrip == Next \/ Reserialize

RoundTripSpec == Init /\ [][NextRoundTrip]_vars

\* tokenize returned its token sequence; parse_json returned its value
TokenizeReturned == pc \in {"parse", "parse_panic", "done"}
ParseReturned == pc = "done"

TypeOK ==
    /\ pos \in 0..Len(bytes)
    /\ cursor \in 0..Len(tokens)
    /\ pc \in {"tokenize", "tokenize_panic", "parse", "parse_panic", "done"}
    /\ in_string \in BOOLEAN
    /\ escape \in BOOLEAN

(* ---------------- properties ---------------- *)
Panicked == pc \in {"tokenize_panic", "parse_panic"}

\* tokenize(doc) returns the token sequence tks
TokenizesTo(doc, tks) ==
    bytes = doc => /\ pc # "tokenize_panic"
                   /\ TokenizeReturned => tokens = tks

\* parse(doc) returns the value v
ParsesTo(doc, v) ==
    bytes = doc => /\ ~Panicked
                   /\ ParseReturned => ret = v

\* the byte the tokenizer is about to consume
AtByte(c) == pc = "tokenize" /\ pos < Len(bytes) /\ bytes[pos + 1] = c

\* C1: tokenize of {"a":1} returns the seven tokens { " a " : 1 } in that
\* order, and every structural punctuation character and every quote met
\* outside a string flushes the in-progress token and is then emitted as
\* its own one-character token.
C1_Example ==
    TokenizesTo(DocObjA1,
                <<T_lbrace, T_quote, <<Ch_a>>, T_quote, T_colon, <<D1>>, T_rbrace>>)
C1_Step ==
    \A c \in {LBRACE, RBRACE, LBRACK, RBRACK, COLON, COMMA, QUOTE} :
        (AtByte(c) /\ ~in_string) =>
            /\ pos' = pos + 1
            /\ curr_token' = <<>>
            /\ tokens' = (IF curr_token = <<>> THEN tokens ELSE Append(tokens, curr_token))
                         \o <<<<c>>>>
C1_PunctuationTokens == [](C1_Example) /\ [][C1_Step]_vars
C1_Witness ==
    /\ bytes = DocObjA1
    /\ TokenizeReturned
    /\ Len(tokens) = 7

\* C2: parse returns, for every number of the document, a Number whose value
\* is the numeric value of the number's text; parse of
\* {"x":[1,2.5,-3e2,true,false,null,"s"]} maps x to
\* [1.0, 2.5, -300.0, true, false, null, "s"].
C2_NumbersHaveTheirValue ==
    /\ ParsesTo(DocMixed,
                Obj([k \in {<<Ch_x>>} |->
                       Arr(<<Num(1, 1), Num(5, 2), Num(-300, 1), Bool(TRUE),
                             Bool(FALSE), Null, Str(<<Ch_s>>)>>)]))
    /\ \A v1 \in ValueTexts, v2 \in ValueTexts :
          ParsesTo(TwoEntryDoc(KeyA, v1, KeyB, v2),
                   Obj([k \in {<<Ch_a>>, <<Ch_b>>} |->
                          IF k = <<Ch_a>> THEN ValueOfText(v1) ELSE ValueOfText(v2)]))

\* C3: parse of {"a":} fails and returns no value tree, and parse never
\* returns an Object for a document in which a key's colon is directly
\* followed by } or by a comma.
C3_MissingValueFails ==
    /\ bytes = DocMissingValue => ~ParseReturned
    /\ (ParseReturned /\ ret.type = "Obj") =>
          ~ \E i \in 2..(cursor - 1) :
               /\ tokens[i - 1] = T_quote
               /\ tokens[i] = T_colon
               /\ tokens[i + 1] \in {T_rbrace, T_comma}

\* C4: if the tokenizer reaches end of input with in_string still true or
\* with escape still set, tokenize fails and returns no token sequence.
C4_UnterminatedFails == TokenizeReturned => (~in_string /\ ~escape)

\* C5: when one object holds the same key more than once, the parsed Object
\* has one entry for the key, whose value is the one of the last occurrence;
\* parse of {"a":1,"a":2} maps a to 2.
C5_LastWriteWins ==
    \A v1 \in ValueTexts, v2 \in ValueTexts :
        ParsesTo(TwoEntryDoc(KeyA, v1, KeyA, v2),
                 Obj([k \in {<<Ch_a>>} |-> ValueOfText(v2)]))

\* C6: an exponent marker met outside a string directly after a decimal
\* digit flushes the in-progress numeric token and a new token starts after
\* the marker, so that tokenize of 1e10 returns the three tokens 1, e, 10.
C6_Example == TokenizesTo(DocExponent, <<<<D1>>, <<Ch_e>>, <<D1, D0>>>>)
C6_Step ==
    \A c \in {Ch_e, Ch_E} :
        (AtByte(c) /\ ~in_string /\ curr_token # <<>>
           /\ curr_token[Len(curr_token)] \in D0..D9) =>
            /\ pos' = pos + 1
            /\ curr_token' = <<>>
            /\ tokens' = tokens \o <<curr_token, <<c>>>>
C6_ExponentSplits == [](C6_Example) /\ [][C6_Step]_vars

\* C7: inside a string a backslash followed by b, f, n, r or t appends the
\* one control character (backspace, form-feed, newline, carriage return,
\* tab) to the in-progress token and neither the backslash nor the letter;
\* tokenize of "a\nb" returns a quote, the token a-newline-b, and a quote.
C7_Control(c) ==
    CASE c = 98 -> 8 [] c = 102 -> 12 [] c = 110 -> 10 [] c = 114 -> 13 [] c = 116 -> 9
C7_Example ==
    TokenizesTo(DocEscapedNewline, <<T_quote, <<Ch_a, NL, Ch_b>>, T_quote>>)
C7_Step ==
    /\ (AtByte(BACKSLASH) /\ in_string /\ ~escape) =>
          /\ pos' = pos + 1
          /\ escape'
          /\ curr_token' = curr_token
          /\ tokens' = tokens
    /\ \A c \in {98, 102, 110, 114, 116} :
          (AtByte(c) /\ in_string /\ escape) =>
              /\ pos' = pos + 1
              /\ curr_token' = Append(curr_token, C7_Control(c))
              /\ tokens' = tokens
C7_EscapesDecoded == [](C7_Example) /\ [][C7_Step]_vars
C7_Witness ==
    /\ bytes = DocEscapedNewline
    /\ TokenizeReturned
    /\ tokens[2] = <<Ch_a, NL, Ch_b>>

\* C8: no token of the sequence tokenize returns is the empty string, and at
\* every step of tokenizing every token already emitted has length >= 1.
C8_NoEmptyToken == \A i \in 1..Len(tokens) : Len(tokens[i]) >= 1
C8_Witness ==
    /\ TokenizeReturned
    /\ Len(bytes) >= 3
    /\ bytes[1] = SP
    /\ bytes[3] = SP
    /\ Len(tokens) >= 1

\* C9: parse of {} returns an Object with no entries and parse of [] an
\* Array with no elements, also for an empty object or array nested as a
\* value inside another array or object.
C9_EmptyContainers ==
    \A e \in {EmptyObjText, EmptyArrText} :
        LET v == IF e = EmptyObjText THEN Obj(<<>>) ELSE Arr(<<>>)
        IN /\ ParsesTo(e, v)
           /\ ParsesTo(T_lbrack \o e \o T_rbrack, Arr(<<v>>))
           /\ ParsesTo(T_lbrack \o e \o T_comma \o e \o T_rbrack, Arr(<<v, v>>))
           /\ ParsesTo(T_lbrack \o T_lbrack \o e \o T_rbrack \o T_rbrack,
                       Arr(<<Arr(<<v>>)>>))
           /\ ParsesTo(T_lbrace \o KeyA \o T_colon \o e \o T_rbrace,
                       Obj([k \in {<<Ch_a>>} |-> v]))
           /\ ParsesTo(T_lbrack \o T_lbrace \o KeyA \o T_colon \o e \o T_rbrace
                         \o T_rbrack,
                       Arr(<<Obj([k \in {<<Ch_a>>} |-> v])>>))
C9_Witness ==
    /\ bytes = T_lbrack \o T_lbrace \o KeyA \o T_colon \o EmptyArrText \o T_rbrace
                 \o T_rbrack
    /\ ParseReturned
    /\ ret.type = "Arr"

\* C10: parsing an object fails, and returns no Object, whenever the token
\* that follows the end of an entry's value is anything other than , or },
\* for every kind of value, a number value included.
C10_BadSeparatorFails ==
    \A v \in ValueTexts, x \in Followers :
        bytes = FollowedEntryDoc(v, x) => ~ParseReturned

\* C11: for every document in which an empty string literal (two adjacent
\* quotes) is a value or an object key, the parser yields the empty string
\* for it and leaves the cursor just past its closing quote, whatever token
\* follows or none, the document "" alone included.
C11_EmptyStringLiteral ==
    /\ ParsesTo(EmptyStrText, Str(<<>>))
    /\ (bytes = EmptyStrText /\ ParseReturned) => cursor = 2
    /\ ParsesTo(T_lbrack \o EmptyStrText \o T_rbrack, Arr(<<Str(<<>>)>>))
    /\ ParsesTo(T_lbrack \o EmptyStrText \o T_comma \o EmptyStrText \o T_rbrack,
                Arr(<<Str(<<>>), Str(<<>>)>>))
    /\ ParsesTo(T_lbrack \o EmptyStrText \o T_comma \o T_true \o T_rbrack,
                Arr(<<Str(<<>>), Bool(TRUE)>>))
    /\ ParsesTo(T_lbrace \o EmptyStrText \o T_colon \o T_true \o T_rbrace,
                Obj([k \in {<<>>} |-> Bool(TRUE)]))
    /\ ParsesTo(T_lbrace \o KeyA \o T_colon \o EmptyStrText \o T_rbrace,
                Obj([k \in {<<Ch_a>>} |-> Str(<<>>)]))
    /\ ParsesTo(T_lbrace \o KeyA \o T_colon \o EmptyStrText \o T_comma
                   \o KeyB \o T_colon \o T_true \o T_rbrace,
                Obj([k \in {<<Ch_a>>, <<Ch_b>>} |->
                       IF k = <<Ch_a>> THEN Str(<<>>) ELSE Bool(TRUE)]))

\* C12: parse_string, called with the cursor on the token that directly
\* follows an opening quote token and with a quote token directly after the
\* cursor token, returns the cursor token's text unchanged, also when that
\* text is empty and when it is a single quote character.
C12_Step ==
    (/\ Running("parse_string", "entry")
     /\ cursor >= 1
     /\ cursor + 1 < Len(tokens)
     /\ Tok(cursor - 1) = T_quote
     /\ Tok(cursor + 1) = T_quote) =>
        /\ pc' # "parse_panic"
        /\ ret' = RustString(Tok(cursor))
        /\ cursor' = cursor + 2
C12_ParseStringReturnsText == [][C12_Step]_vars
\* test_parse_string_3: the text is itself a quote
C12_Witness ==
    /\ tokens = <<T_quote, T_quote, T_quote>>
    /\ pc = "done"
    /\ cursor = 3
    /\ ret = RustString(T_quote)

\* C13: round trip: for every value tree v the parser can produce, parsing
\* the text the serializer renders for v returns a tree with the structure
\* and the scalar values of v.
C13_RoundTrip ==
    original # NoValue => /\ ~Panicked
                          /\ ParseReturned => ret = original

\* C14: during one parse operation the shared cursor never decreases and is
\* never reset: every step of parse_value, parse_object, parse_array and
\* parse_string, at any recursion depth, leaves the cursor greater than or
\* equal to its value before the step.
C14_CursorMonotonic == [][cursor' >= cursor]_vars
C14_Witness ==
    /\ bytes = DocMixed
    /\ ParseReturned
    /\ cursor = Len(tokens)
    /\ cursor = 28

\* C15: the escape flag is cleared as soon as the escaped character is
\* consumed: if the tokenizer consumes a character c while escape is set,
\* escape is false after c has been consumed.
C15_Step ==
    (pc = "tokenize" /\ pos < Len(bytes) /\ escape /\ pos' = pos + 1) => ~escape'
C15_EscapeCleared == [][C15_Step]_vars

\* C16: parse_value dispatches on the current token ({ to parse_object,
\* [ to parse_array, a quote to parse_string, true/false/null to the literal,
\* any other token to number parsing) and consumes at least the token it
\* dispatched on: every parse_value call that returns leaves the cursor
\* strictly greater than it was at entry.
C16_Dispatch ==
    (Running("parse_value", "entry") /\ InBounds(cursor)) =>
        LET t == Tok(cursor)
            callee == stack'[Len(stack')].fn
        IN CASE t = T_lbrace -> callee = "parse_object" /\ cursor' = cursor + 1
             [] t = T_lbrack -> callee = "parse_array" /\ cursor' = cursor + 1
             [] t = T_quote -> callee = "parse_string" /\ cursor' = cursor + 1
             [] t = T_true -> ret' = Bool(TRUE) /\ cursor' = cursor + 1
             [] t = T_false -> ret' = Bool(FALSE) /\ cursor' = cursor + 1
             [] t = T_null -> ret' = Null /\ cursor' = cursor + 1
             [] OTHER -> stack'[Len(stack')].pc = "skip"
C16_Returns ==
    (/\ pc = "parse" /\ stack # <<>> /\ Top.fn = "parse_value"
     /\ Len(stack') < Len(stack) /\ pc' # "parse_panic") =>
        cursor' > Top.start
C16_ParseValueConsumes == [][C16_Dispatch /\ C16_Returns]_vars

\* C17: for each of the four whitespace bytes (space, tab, CR, LF): met
\* outside a string it ends the in-progress token and contributes no
\* character to any token; met while the escape flag is pending it makes
\* tokenize fail.
C17_Step ==
    \A w \in {SP, TAB, CR, NL} :
        /\ (AtByte(w) /\ ~in_string) =>
              /\ pos' = pos + 1
              /\ curr_token' = <<>>
              /\ tokens' = IF curr_token = <<>> THEN tokens ELSE Append(tokens, curr_token)
        /\ (AtByte(w) /\ escape) => pc' = "tokenize_panic"
C17_Whitespace == [][C17_Step]_vars

\* C18: parsing an array whose source holds n >= 0 comma-separated values,
\* closed by ], returns an Array of exactly n elements whose i-th element is
\* the value parsed from the i-th source value, in source order, with nested
\* arrays and objects as single elements.
C18_Value(v) ==
    CASE v = NestedArrText -> Arr(<<Bool(TRUE)>>)
      [] v = NestedObjText -> Obj([k \in {<<Ch_a>>} |-> Null])
      [] OTHER -> ValueOfText(v)
\* x is the value of the source value v (of a number: a Number)
C18_IsValueOf(x, v) ==
    IF v = <<D1>> THEN x.type = "Num" ELSE x = C18_Value(v)
C18_ArrayInOrder ==
    ((ParseReturned \/ Panicked) /\ original = NoValue
        /\ Len(bytes) >= 2 /\ bytes[1] = LBRACK) =>
        \A vs \in SeqsUpTo(ElemTexts, MaxElems) :
            bytes = ArrayDoc(vs) =>
                /\ ParseReturned
                /\ ret.type = "Arr"
                /\ Len(ret.elems) = Len(vs)
                /\ \A i \in 1..Len(vs) : C18_IsValueOf(ret.elems[i], vs[i])
C18_Witness ==
    /\ bytes = ArrayDoc(<<NestedObjText, T_false>>)
    /\ ParseReturned
    /\ Len(ret.elems) = 2

\* C19: at every step of tokenize the escape flag is set only while
\* in_string is true: a backslash outside a string fails, and a quote
\* consumed with escape set never toggles in_string.
C19_Step ==
    /\ (AtByte(BACKSLASH) /\ ~in_string) => pc' = "tokenize_panic"
    /\ (AtByte(QUOTE) /\ escape) => (pos' = pos + 1 /\ in_string' = in_string)
C19_EscapeOnlyInString == [](escape => in_string) /\ [][C19_Step]_vars
C19_Witness ==
    /\ bytes = <<LBRACK, QUOTE, BACKSLASH, QUOTE, QUOTE, RBRACK>>
    /\ pc = "tokenize"
    /\ pos = 4
    /\ in_string
    /\ curr_token = <<QUOTE>>

\* C20: for every finite token sequence and every start cursor, parse_value
\* terminates, returning a value or failing: every iteration of the loops of
\* parse_object and parse_array and of the token-skipping loop of parse_value
\* increases the cursor (the skip loop: its position c, which becomes the
\* cursor) by at least one or fails, and every recursive call is made only
\* after the cursor has moved past an opening { or [.
Terminated == pc \in {"done", "parse_panic", "tokenize_panic"}
\* the activations of parse_object and parse_array on the stack
C20_Nesting ==
    Cardinality({i \in 1..Len(stack) : stack[i].fn \in {"parse_object", "parse_array"}})
\* the opening tokens the cursor has moved past since the outermost call began
C20_OpenersPassed ==
    Cardinality({i \in (stack[1].start + 1)..cursor : tokens[i] \in {T_lbrace, T_lbrack}})
C20_Depth == (pc = "parse" /\ stack # <<>>) => C20_Nesting <= C20_OpenersPassed
C20_Step ==
    (pc = "parse" /\ stack # <<>> /\ pc' = "parse" /\ Len(stack') = Len(stack)) =>
        LET top == stack'[Len(stack')]
        IN \* the loop of parse_object or parse_array starts its next iteration
           /\ (Top.fn \in {"parse_object", "parse_array"} /\ top.pc = "entry") =>
                 cursor' >= cursor + 1
           \* the skip loop of parse_value goes round
           /\ (Top.fn = "parse_value" /\ Top.pc = "skip" /\ top.pc = "skip") =>
                 top.c >= Top.c + 1
C20_Terminates == [](C20_Depth) /\ [][C20_Step]_vars /\ <>Terminated
C20_Witness ==
    /\ tokens = TokensArray
    /\ pc = "done"
    /\ cursor = Len(tokens)
    /\ ret.type = "Arr"
    /\ Len(ret.elems) = 4

====
